---- MODULE Spec2Model ----
(***************************************************************************)
(* Model of turbustat/statistics/base_statistic.py: BaseStatisticMixIn,    *)
(* the validated header / data / distance attributes, the input resolver   *)
(* and the pixel <-> angle <-> distance equivalencies derived from them.   *)
(*                                                                         *)
(* Python values are records tagged by their runtime type (field t), so    *)
(* that isinstance() is a test on the tag.  Numbers are exact rationals    *)
(* n/d times a power k of (pi/180); d = 0 encodes the IEEE values inf      *)
(* (n # 0) and nan (n = 0).  Exceptions are the err field of a call's      *)
(* outcome, named by the error kinds of the specification.                 *)
(***************************************************************************)
EXTENDS Integers, Sequences, FiniteSets, TLC

\* ------------------------------------------------------------------ bounds
MaxCdelt == 2
MaxArrays == 2
MaxDist == 1
MaxPix == 2

\* ------------------------------------------------------------- error kinds
OK == "ok"
TypeKind == "TypeKind"
UnitKind == "UnitKind"
AttributeKind == "AttributeKind"
LookupKind == "LookupKind"
ZeroDivKind == "ZeroDivKind"
LoaderKind == "LoaderKind"

\* ---------------------------------------------------------------- numbers
AbsInt(i) == IF i < 0 THEN -i ELSE i

SignInt(i) == IF i < 0 THEN -1 ELSE IF i = 0 THEN 0 ELSE 1

RECURSIVE Gcd(_, _)
Gcd(a, b) == IF b = 0 THEN a ELSE Gcd(b, a % b)

\* the number (n/d) * (pi/180)^k in lowest terms; d = 0 is inf or nan
Num(n, d, k) ==
    IF d = 0 THEN [n |-> SignInt(n), d |-> 0, k |-> 0]
    ELSE IF n = 0 THEN [n |-> 0, d |-> 1, k |-> 0]
    ELSE LET g == Gcd(AbsInt(n), AbsInt(d))
         IN  [n |-> (SignInt(d) * n) \div g, d |-> AbsInt(d) \div g, k |-> k]

Int2Num(i) == Num(i, 1, 0)

NumMul(a, b) ==
    IF a.d = 0 \/ b.d = 0
    THEN Num(IF a.d = 0 /\ b.d = 0 THEN a.n * b.n
             ELSE IF a.d = 0 THEN a.n * SignInt(b.n)
             ELSE SignInt(a.n) * b.n, 0, 0)
    ELSE Num(a.n * b.n, a.d * b.d, a.k + b.k)

\* IEEE division: x / 0 is inf (nan for 0 / 0), never an exception
NumDiv(a, b) ==
    IF a.d = 0 /\ b.d = 0 THEN Num(0, 0, 0)
    ELSE IF a.d = 0 THEN Num(a.n * (IF b.n < 0 THEN -1 ELSE 1), 0, 0)
    ELSE IF b.d = 0 THEN Num(0, 1, 0)
    ELSE Num(a.n * b.d, a.d * b.n, a.k - b.k)

NumAbs(a) == [a EXCEPT !.n = AbsInt(a.n)]

IsZero(a) == a.d # 0 /\ a.n = 0

\* pi / 180, the number of radians in a degree
RadPerDeg == Num(1, 1, 1)

\* ----------------------------------------------------------- Python values
\* an attribute that was never assigned
Unset == [t |-> "unset"]

None == [t |-> "none"]

\* astropy.io.fits.header.Header: a mapping from keywords to values
Header(cards) == [t |-> "header", cards |-> cards]

\* a plain dict with the same keywords: not a Header instance
Dict(cards) == [t |-> "dict", cards |-> cards]

NdArray(i) == [t |-> "ndarray", id |-> i]

List(i) == [t |-> "list", id |-> i]

Str(i) == [t |-> "str", id |-> i]

Float(i) == [t |-> "float", value |-> Int2Num(i)]

\* astropy.units.Quantity: values (one per element), unit, isscalar
Quantity(value, unit, isscalar) ==
    [t |-> "quantity", value |-> value, unit |-> unit, isscalar |-> isscalar]

Scalar(n, unit) == Quantity(<<n>>, unit, TRUE)

isinstance(v, type) == v.t = type

\* ------------------------------------------------------------------- units
LengthUnits == {"pc", "kpc"}

PhysicalType(unit) ==
    IF unit \in LengthUnits THEN "length"
    ELSE IF unit = "deg" THEN "angle"
    ELSE IF unit = "s" THEN "time"
    ELSE "pixel"

is_equivalent(unit, other) == PhysicalType(unit) = PhysicalType(other)

\* --------------------------------------------------------- outcome of calls
\* s: the instance's attributes after the call; err: the exception raised (OK
\* for a normal return); res: the value returned
Ret(s, err, res) == [s |-> s, err |-> err, res |-> res]

VARIABLES need_header_flag, no_data_flag,
          header, data, distance, held, last

vars == <<need_header_flag, no_data_flag, header, data, distance, held, last>>

Self == [header |-> header, data |-> data, distance |-> distance]

\* ------------------------------------------------------- header (20 - 34)
header_getter(s) ==
    IF s.header = Unset THEN Ret(s, AttributeKind, None)
    ELSE Ret(s, OK, s.header)

\* mutant: the type check runs before the flag is looked at
header_setter_checks_first(s, input_hdr) ==
    IF ~isinstance(input_hdr, "header")
    THEN Ret(s, TypeKind, None)
    ELSE IF ~need_header_flag
         THEN Ret([s EXCEPT !.header = None], OK, None)
         ELSE Ret([s EXCEPT !.header = input_hdr], OK, None)

header_setter(s, input_hdr) ==
    IF ~need_header_flag
    THEN Ret([s EXCEPT !.header = None], OK, None)
    ELSE IF ~isinstance(input_hdr, "header")
         THEN Ret(s, TypeKind, None)
         ELSE Ret([s EXCEPT !.header = input_hdr], OK, None)

\* --------------------------------------------------------- data (36 - 49)
data_getter(s) ==
    IF s.data = Unset THEN Ret(s, AttributeKind, None)
    ELSE Ret(s, OK, s.data)

\* mutant: the flag is read with the opposite sense
data_setter_flag_inverted(s, values) ==
    IF ~no_data_flag
    THEN Ret([s EXCEPT !.data = None], OK, None)
    ELSE IF ~isinstance(values, "ndarray")
         THEN Ret(s, TypeKind, None)
         ELSE Ret([s EXCEPT !.data = values], OK, None)

\* mutant: the type check is missing
data_setter_unchecked(s, values) ==
    IF no_data_flag
    THEN Ret([s EXCEPT !.data = None], OK, None)
    ELSE Ret([s EXCEPT !.data = values], OK, None)

data_setter(s, values) ==
    IF no_data_flag
    THEN Ret([s EXCEPT !.data = None], OK, None)
    ELSE IF ~isinstance(values, "ndarray")
         THEN Ret(s, TypeKind, None)
         ELSE Ret([s EXCEPT !.data = values], OK, None)

\* ---------------------------------------------------- distance (81 - 102)
distance_getter(s) ==
    IF s.distance = Unset THEN Ret(s, AttributeKind, None)
    ELSE Ret(s, OK, s.distance)

\* mutant: the scalar check runs before the unit check
distance_setter_shape_first(s, value) ==
    IF ~isinstance(value, "quantity")
    THEN Ret(s, TypeKind, None)
    ELSE IF ~value.isscalar
         THEN Ret(s, TypeKind, None)
         ELSE IF ~is_equivalent(value.unit, "pc")
              THEN Ret(s, UnitKind, None)
              ELSE Ret([s EXCEPT !.distance = value], OK, None)

\* mutant: the value is stored before the scalar check
distance_setter_stores_first(s, value) ==
    IF ~isinstance(value, "quantity")
    THEN Ret(s, TypeKind, None)
    ELSE IF ~is_equivalent(value.unit, "pc")
         THEN Ret(s, UnitKind, None)
         ELSE IF ~value.isscalar
              THEN Ret([s EXCEPT !.distance = value], TypeKind, None)
              ELSE Ret([s EXCEPT !.distance = value], OK, None)

distance_setter(s, value) ==
    IF ~isinstance(value, "quantity")
    THEN Ret(s, TypeKind, None)
    ELSE IF ~is_equivalent(value.unit, "pc")
         THEN Ret(s, UnitKind, None)
         ELSE IF ~value.isscalar
              THEN Ret(s, TypeKind, None)
              ELSE Ret([s EXCEPT !.distance = value], OK, None)

\* ------------------------------------------- external loader (..io.input_data)
\* a combined source (an HDU, or a (data, header) pair) encoding both parts
Combined(d, h) == [t |-> "hdu", data |-> d, header |-> h]

\* load(source, header_only_mode): the array alone when told to skip the header,
\* the (data, header) pair otherwise; a bare array carries no header to extract
input_data(source, no_header) ==
    IF isinstance(source, "hdu")
    THEN IF no_header THEN [err |-> OK, res |-> <<source.data>>]
         ELSE [err |-> OK, res |-> <<source.data, source.header>>]
    ELSE IF isinstance(source, "ndarray") /\ no_header
         THEN [err |-> OK, res |-> <<source>>]
         ELSE [err |-> LoaderKind, res |-> <<>>]

\* ------------------------------------------- input_data_header (51 - 60)
\* mutant: with a header supplied, the header is never assigned
input_data_header_drops_header(s, d, h) ==
    IF ~isinstance(h, "none")
    THEN LET loaded == input_data(d, TRUE)
         IN  IF loaded.err # OK THEN Ret(s, loaded.err, None)
             ELSE LET r1 == data_setter(s, loaded.res[1])
                  IN  Ret(r1.s, r1.err, None)
    ELSE LET loaded == input_data(d, FALSE)
         IN  IF loaded.err # OK THEN Ret(s, loaded.err, None)
             ELSE LET r1 == data_setter(s, loaded.res[1])
                  IN  IF r1.err # OK THEN Ret(r1.s, r1.err, None)
                      ELSE LET r2 == header_setter(r1.s, loaded.res[2])
                           IN  Ret(r2.s, r2.err, None)

\* mutant: the header is assigned before the data
input_data_header_header_first(s, d, h) ==
    LET loaded == input_data(d, ~isinstance(h, "none"))
    IN  IF loaded.err # OK THEN Ret(s, loaded.err, None)
        ELSE LET r1 == header_setter(s, IF isinstance(h, "none") THEN loaded.res[2] ELSE h)
             IN  IF r1.err # OK THEN Ret(r1.s, r1.err, None)
                 ELSE LET r2 == data_setter(r1.s, loaded.res[1])
                      IN  Ret(r2.s, r2.err, None)

input_data_header(s, d, h) ==
    IF ~isinstance(h, "none")
    THEN LET loaded == input_data(d, TRUE)
         IN  IF loaded.err # OK THEN Ret(s, loaded.err, None)
             ELSE LET r1 == data_setter(s, loaded.res[1])
                  IN  IF r1.err # OK THEN Ret(r1.s, r1.err, None)
                      ELSE LET r2 == header_setter(r1.s, h)
                           IN  Ret(r2.s, r2.err, None)
    ELSE LET loaded == input_data(d, FALSE)
         IN  IF loaded.err # OK THEN Ret(s, loaded.err, None)
             ELSE LET r1 == data_setter(s, loaded.res[1])
                  IN  IF r1.err # OK THEN Ret(r1.s, r1.err, None)
                      ELSE LET r2 == header_setter(r1.s, loaded.res[2])
                           IN  Ret(r2.s, r2.err, None)

\* ----------------------------------------------------- ang_size (67 - 69)
\* self.header["CDELT2"]: AttributeError without _header, TypeError on None
\* (not subscriptable), KeyError on a Header without the keyword
\* mutant: the absolute value is missing
ang_size_signed(s) ==
    LET h == header_getter(s)
    IN  IF h.err # OK THEN Ret(s, h.err, None)
        ELSE IF isinstance(h.res, "none") THEN Ret(s, TypeKind, None)
        ELSE IF "CDELT2" \notin DOMAIN h.res.cards THEN Ret(s, LookupKind, None)
        ELSE Ret(s, OK, Scalar(h.res.cards["CDELT2"], "deg"))

ang_size(s) ==
    LET h == header_getter(s)
    IN  IF h.err # OK THEN Ret(s, h.err, None)
        ELSE IF isinstance(h.res, "none") THEN Ret(s, TypeKind, None)
        ELSE IF "CDELT2" \notin DOMAIN h.res.cards THEN Ret(s, LookupKind, None)
        ELSE Ret(s, OK, Scalar(NumAbs(h.res.cards["CDELT2"]), "deg"))

\* ------------------------------------------------ distance_size (104 - 108)
\* mutant: the degrees are not turned into radians
distance_size_in_degrees(s) ==
    LET a == ang_size(s)
        d == distance_getter(s)
    IN  IF a.err # OK THEN Ret(s, a.err, None)
        ELSE IF d.err # OK THEN Ret(s, d.err, None)
        ELSE Ret(s, OK, Scalar(NumMul(a.res.value[1], d.res.value[1]), d.res.unit))

\* (ang_size * distance).to(distance.unit, dimensionless_angles()): the angle
\* factor collapses to radians, pi/180 per degree
distance_size(s) ==
    LET a == ang_size(s)
        d == distance_getter(s)
    IN  IF a.err # OK THEN Ret(s, a.err, None)
        ELSE IF d.err # OK THEN Ret(s, d.err, None)
        ELSE Ret(s, OK,
                 Scalar(NumMul(NumMul(a.res.value[1], d.res.value[1]), RadPerDeg),
                        d.res.unit))

\* ---------------------------------------------- equivalencies (62-65, 110-114)
\* a rule (funit, tunit, forward, backward); the two lambdas close over self and
\* read the scale named by fn when they are called, not when the rule is built
Equivalency(funit, tunit, fn) ==
    [t |-> "equiv", funit |-> funit, tunit |-> tunit, fn |-> fn]

angular_equiv(s) == Ret(s, OK, Equivalency("pix", "deg", "ang_size"))

distance_equiv(s) ==
    LET d == distance_getter(s)
    IN  IF d.err # OK THEN Ret(s, d.err, None)
        ELSE Ret(s, OK, Equivalency("pix", d.res.unit, "distance_size"))

\* float(self.<fn>.value), evaluated inside a lambda of the rule
ScaleOf(s, rule) ==
    LET f == IF rule.fn = "ang_size" THEN ang_size(s) ELSE distance_size(s)
    IN  IF f.err # OK THEN [err |-> f.err, value |-> Int2Num(0)]
        ELSE [err |-> OK, value |-> f.res.value[1]]

\* lambda x: x * float(scale)
Forward(s, rule, xs) ==
    LET f == ScaleOf(s, rule)
    IN  IF f.err # OK THEN [err |-> f.err, value |-> <<>>]
        ELSE [err |-> OK, value |-> [i \in DOMAIN xs |-> NumMul(xs[i], f.value)]]

\* mutant: the backward lambda multiplies, like the forward one
Backward_multiplies(s, rule, xs, ieee) ==
    LET f == ScaleOf(s, rule)
    IN  IF f.err # OK THEN [err |-> f.err, value |-> <<>>]
        ELSE [err |-> OK, value |-> [i \in DOMAIN xs |-> NumMul(xs[i], f.value)]]

\* lambda x: x / float(scale); x is a numpy value (IEEE division) when the
\* quantity is an array or the unit system passes numpy scalars, a Python
\* float (ZeroDivisionError) otherwise
Backward(s, rule, xs, ieee) ==
    LET f == ScaleOf(s, rule)
    IN  IF f.err # OK THEN [err |-> f.err, value |-> <<>>]
        ELSE IF IsZero(f.value) /\ ~ieee THEN [err |-> ZeroDivKind, value |-> <<>>]
        ELSE [err |-> OK, value |-> [i \in DOMAIN xs |-> NumDiv(xs[i], f.value)]]

\* ------------------------------------- unit system: Quantity.to(unit, equivs)
\* pc per unit of length
InPc(unit) == IF unit = "kpc" THEN 1000 ELSE 1

\* the factor from unit to other, for units of one physical type
UnitScale(unit, other) == Num(InPc(unit), InPc(other), 0)

Directly(unit, other) == unit = other \/ is_equivalent(unit, other)

Rescale(xs, unit, other) == [i \in DOMAIN xs |-> NumMul(xs[i], UnitScale(unit, other))]

\* value.to(unit, equivalencies): a direct conversion first; then each rule,
\* forward (value's unit to funit, tunit to the target) before backward.
\* np_scalar: the unit system hands a scalar's value to the rule's lambda as a
\* numpy scalar (True) or as a Python float (False), depending on its version
QuantityTo(s, value, unit, equivalencies, np_scalar) ==
    IF Directly(value.unit, unit)
    THEN Ret(s, OK, Quantity(Rescale(value.value, value.unit, unit), unit, value.isscalar))
    ELSE LET fwd == {i \in DOMAIN equivalencies :
                       /\ Directly(value.unit, equivalencies[i].funit)
                       /\ Directly(equivalencies[i].tunit, unit)}
             bwd == {i \in DOMAIN equivalencies :
                       /\ Directly(value.unit, equivalencies[i].tunit)
                       /\ Directly(equivalencies[i].funit, unit)}
         IN  IF fwd \cup bwd = {} THEN Ret(s, UnitKind, None)
             ELSE LET i == CHOOSE j \in fwd \cup bwd : \A m \in fwd \cup bwd : j <= m
                      rule == equivalencies[i]
                      c == IF i \in fwd
                           THEN Forward(s, rule, Rescale(value.value, value.unit, rule.funit))
                           ELSE Backward(s, rule, Rescale(value.value, value.unit, rule.tunit),
                                         np_scalar \/ ~value.isscalar)
                  IN  IF c.err # OK THEN Ret(s, c.err, None)
                      ELSE Ret(s, OK,
                               Quantity(Rescale(c.value,
                                                IF i \in fwd THEN rule.tunit ELSE rule.funit,
                                                unit),
                                        unit, value.isscalar))

\* ----------------------------------------------------- to_pixel (71 - 79)
to_pixel(s, value, np_scalar) ==
    IF ~isinstance(value, "quantity")
    THEN Ret(s, TypeKind, None)
    ELSE QuantityTo(s, value, "pix", <<angular_equiv(s).res>>, np_scalar)

\* ------------------------------------------------------------------ inputs
Cards(key, i) == [k \in {key} |-> Int2Num(i)]

Headers ==
    {Header(Cards("CDELT2", i)) : i \in -MaxCdelt .. MaxCdelt} \cup {Header(Cards("CDELT1", 1))}

HeaderInputs == Headers \cup {None, Str(1), Dict(Cards("CDELT2", 1))}

Arrays == {NdArray(i) : i \in 1 .. MaxArrays}

DataInputs == Arrays \cup {None, List(1)}

Distances == {Scalar(Int2Num(v), unit) : v \in 1 .. MaxDist, unit \in LengthUnits}

DistanceInputs ==
    Distances \cup
    {Scalar(Int2Num(1), "s"),
     Quantity(<<Int2Num(1), Int2Num(2)>>, "pc", FALSE),
     Quantity(<<Int2Num(1), Int2Num(2)>>, "s", FALSE),
     None, Float(1)}

\* headers as sources carry them and callers supply them: a Header with and
\* without the pixel-scale keyword, a value of the wrong type, and none
SourceHeaders ==
    {Header(Cards("CDELT2", MaxCdelt)), Header(Cards("CDELT1", 1)), Str(1), None}

SourceData == Arrays \cup {List(1)}

\* (data, header) arguments: a combined source alone, a bare value with or
\* without a header, and a combined source next to a header given separately
ResolverInputs ==
    {<<Combined(d, h), None>> : d \in SourceData, h \in SourceHeaders} \cup
    {<<d, h>> : d \in SourceData, h \in SourceHeaders} \cup
    {<<Combined(d, Header(Cards("CDELT1", 1))), Header(Cards("CDELT2", MaxCdelt))>> :
        d \in SourceData}

Pixels == {Scalar(Int2Num(p), "pix") : p \in 0 .. MaxPix}

Angles == {Scalar(Int2Num(a), "deg") : a \in 0 .. MaxPix}

\* (value, target unit) pairs of conversions: pixels to an angle or a length,
\* angles and lengths to pixels
Conversions ==
    {<<P, unit>> : P \in Pixels, unit \in {"deg", "pc"}} \cup
    {<<A, "pix">> : A \in Angles \cup {Scalar(Int2Num(1), "pc")}}

PixelInputs ==
    Angles \cup
    {Scalar(Int2Num(1), "pix"), Scalar(Int2Num(1), "pc"),
     Quantity(<<Int2Num(0), Int2Num(1)>>, "deg", FALSE), Float(1)}

\* ----------------------------------------------------------------- actions
Call(op, args, r) ==
    /\ header' = r.s.header
    /\ data' = r.s.data
    /\ distance' = r.s.distance
    /\ last' = [op |-> op, args |-> args, err |-> r.err, res |-> r.res]
    /\ UNCHANGED <<need_header_flag, no_data_flag>>

Init ==
    /\ need_header_flag \in BOOLEAN
    /\ no_data_flag \in BOOLEAN
    /\ header = Unset
    /\ data = Unset
    /\ distance = Unset
    /\ held = None
    /\ last = [op |-> "new", args |-> <<>>, err |-> OK, res |-> None]

GetHeader == Call("header", <<>>, header_getter(Self)) /\ UNCHANGED held

SetHeader == \E H \in HeaderInputs :
    Call("header=", <<H>>, header_setter(Self, H)) /\ UNCHANGED held

GetData == Call("data", <<>>, data_getter(Self)) /\ UNCHANGED held

SetData == \E D \in DataInputs :
    Call("data=", <<D>>, data_setter(Self, D)) /\ UNCHANGED held

GetDistance == Call("distance", <<>>, distance_getter(Self)) /\ UNCHANGED held

SetDistance == \E V \in DistanceInputs :
    Call("distance=", <<V>>, distance_setter(Self, V)) /\ UNCHANGED held

InputDataHeader == \E in \in ResolverInputs :
    Call("input_data_header", in, input_data_header(Self, in[1], in[2])) /\ UNCHANGED held

GetAngSize == Call("ang_size", <<>>, ang_size(Self)) /\ UNCHANGED held

GetDistanceSize == Call("distance_size", <<>>, distance_size(Self)) /\ UNCHANGED held

\* the caller keeps the rule it was given, to use it in later conversions
GetAngularEquiv ==
    /\ Call("angular_equiv", <<>>, angular_equiv(Self))
    /\ held' = angular_equiv(Self).res

GetDistanceEquiv ==
    /\ Call("distance_equiv", <<>>, distance_equiv(Self))
    /\ held' = IF distance_equiv(Self).err = OK THEN distance_equiv(Self).res ELSE held

\* value.to(unit, equivalencies = the rule obtained earlier)
Convert == \E c \in Conversions, np_scalar \in BOOLEAN :
    /\ isinstance(held, "equiv")
    /\ Call("to", <<c[1], [t |-> "unit", unit |-> c[2]]>>,
            QuantityTo(Self, c[1], c[2], <<held>>, np_scalar))
    /\ UNCHANGED held

\* to_pixel of an input, or of the quantity the last conversion returned
ToPixel ==
    \E value \in PixelInputs \cup
                 {v \in {last.res} : last.op = "to" /\ last.err = OK},
       np_scalar \in BOOLEAN :
        Call("to_pixel", <<value>>, to_pixel(Self, value, np_scalar)) /\ UNCHANGED held

Next ==
    \/ GetHeader
    \/ SetHeader
    \/ GetData
    \/ SetData
    \/ GetDistance
    \/ SetDistance
    \/ InputDataHeader
    \/ GetAngSize
    \/ GetDistanceSize
    \/ GetAngularEquiv
    \/ GetDistanceEquiv
    \/ Convert
    \/ ToPixel

Spec == Init /\ [][Next]_vars

\* =================================================================== claims
Arg(i) == last.args[i]

ArgNext(i) == last'.args[i]

\* C1: header = H fails with TypeKind when the header is needed and H is no
\* Header (null included); when the header is not needed it never fails and
\* null is stored whatever H is; when the header is needed and H is a Header
\* the getter afterwards returns H.
C1_HeaderAssignment ==
    last.op = "header=" =>
        /\ (need_header_flag /\ ~isinstance(Arg(1), "header")) => last.err = TypeKind
        /\ ~need_header_flag => (last.err = OK /\ header = None)
        /\ (need_header_flag /\ isinstance(Arg(1), "header")) =>
               (last.err = OK /\ header_getter(Self) = Ret(Self, OK, Arg(1)))

C1_Witness ==
    /\ last.op = "header="
    /\ ~need_header_flag
    /\ isinstance(Arg(1), "str")
    /\ last.err = OK
    /\ header = None

C4_ModeEquivalent ==
    [][\A A \in Arrays, H \in Headers :
         (last'.op = "input_data_header" /\ last'.args = <<Combined(A, H), None>>) =>
             LET explicit == input_data_header(Self, A, H)
             IN  /\ data' = explicit.s.data
                 /\ header' = explicit.s.header
                 /\ last'.err = explicit.err]_vars

C4_Witness ==
    /\ last.op = "input_data_header"
    /\ isinstance(Arg(2), "none")
    /\ isinstance(Arg(1), "hdu")
    /\ need_header_flag
    /\ ~no_data_flag
    /\ last.err = OK
    /\ data = Arg(1).data
    /\ header = Arg(1).header
\* the pixel scale and the physical pixel size, written out from the stored
\* header and distance of a state
ScaleNow == NumAbs(header.cards["CDELT2"])

SizeNow == NumMul(NumMul(ScaleNow, distance.value[1]), RadPerDeg)

HasScale == isinstance(header, "header") /\ "CDELT2" \in DOMAIN header.cards

\* C5: every access to ang_size, distance_size, angular_equiv and distance_equiv
\* yields the value given by the header and the distance stored at that moment,
\* and a conversion of pixels through a rule obtained earlier scales by the
\* ang_size or distance_size of the header and distance stored when it runs.
C5_NoStaleDerivedState ==
    /\ (last.op = "ang_size" /\ last.err = OK) =>
           (HasScale /\ last.res = Scalar(ScaleNow, "deg"))
    /\ (last.op = "distance_size" /\ last.err = OK) =>
           (HasScale /\ distance # Unset /\ last.res = Scalar(SizeNow, distance.unit))
    /\ (last.op = "angular_equiv") =>
           (last.err = OK /\ last.res = Equivalency("pix", "deg", "ang_size"))
    /\ (last.op = "distance_equiv" /\ last.err = OK) =>
           (distance # Unset /\ last.res = Equivalency("pix", distance.unit, "distance_size"))
    /\ (last.op = "to" /\ last.err = OK /\ Arg(1).unit = "pix") =>
           /\ HasScale
           /\ held.fn = "distance_size" => distance # Unset
           /\ last.res.value[1] =
                  NumMul(NumMul(Arg(1).value[1],
                                IF held.fn = "ang_size" THEN ScaleNow ELSE SizeNow),
                         UnitScale(held.tunit, Arg(2).unit))

C5_Witness ==
    /\ last.op = "distance_size"
    /\ last.err = OK
    /\ header = Header(Cards("CDELT2", -MaxCdelt))
    /\ distance = Scalar(Int2Num(1), "kpc")
    /\ last.res = Scalar(Num(MaxCdelt, 1, 1), "kpc")

\* the step converts a pixel quantity to an angle with the angular rule
PixelToAngle ==
    /\ last.op = "to"
    /\ last.err = OK
    /\ Arg(1) \in Pixels
    /\ Arg(2).unit = "deg"
    /\ held.fn = "ang_size"

\* C6 as stated: for a header with CDELT2 of any value, zero included, to_pixel
\* of the angle that a pixel quantity P converts to succeeds and returns P.
C6_AsStated ==
    [][(PixelToAngle /\ last'.op = "to_pixel" /\ last'.args = <<last.res>>) =>
           (last'.err = OK /\ last'.res = Arg(1))]_vars

\* C6 amended: the same, for a header whose CDELT2 is not zero.
C6_RoundTrip ==
    [][(/\ PixelToAngle
        /\ ~IsZero(ScaleNow)
        /\ last'.op = "to_pixel"
        /\ last'.args = <<last.res>>) =>
           (last'.err = OK /\ last'.res = Arg(1))]_vars

C6_Witness ==
    /\ last.op = "to_pixel"
    /\ last.err = OK
    /\ isinstance(Arg(1), "quantity")
    /\ Arg(1) = Scalar(Int2Num(2 * MaxCdelt), "deg")
    /\ header = Header(Cards("CDELT2", -MaxCdelt))
    /\ last.res = Scalar(Int2Num(2), "pix")

\* C7 as stated: ang_size is |CDELT2| degrees, never negative, for a stored
\* header with the keyword; the access fails with LookupKind when the stored
\* header lacks the keyword and when the stored header is null.
C7_AsStated ==
    last.op = "ang_size" =>
        /\ HasScale =>
               /\ last.err = OK
               /\ last.res = Scalar(ScaleNow, "deg")
               /\ last.res.value[1].n >= 0
        /\ (isinstance(header, "header") /\ ~HasScale) => last.err = LookupKind
        /\ isinstance(header, "none") => last.err = LookupKind

\* C7 amended: the same, but on a null stored header the access fails with
\* TypeKind (null cannot be subscripted).
C7_AngSize ==
    last.op = "ang_size" =>
        /\ HasScale =>
               /\ last.err = OK
               /\ last.res = Scalar(ScaleNow, "deg")
               /\ last.res.value[1].n >= 0
        /\ (isinstance(header, "header") /\ ~HasScale) => last.err = LookupKind
        /\ isinstance(header, "none") => last.err = TypeKind

C7_Witness ==
    /\ last.op = "ang_size"
    /\ ~need_header_flag
    /\ isinstance(header, "none")
    /\ last.err = TypeKind

C9_RejectedAssignment ==
    [][/\ (last'.op \in {"header=", "data=", "distance="} /\ last'.err # OK) =>
              UNCHANGED <<header, data, distance>>
       /\ (last'.op = "header" /\ last'.err = OK) => last'.res = header
       /\ (last'.op = "data" /\ last'.err = OK) => last'.res = data
       /\ (last'.op = "distance" /\ last'.err = OK) => last'.res = distance
       /\ (distance = Unset /\ ~(last'.op = "distance=" /\ last'.err = OK)) =>
              distance' = Unset
       /\ (last'.op = "distance" /\ distance = Unset) => last'.err = AttributeKind]_vars

C9_Witness ==
    /\ last.op = "distance="
    /\ last.err = TypeKind
    /\ isinstance(Arg(1), "quantity")
    /\ distance = Unset
    /\ isinstance(header, "header")
    /\ isinstance(data, "ndarray")

\* what the loader returns for the arguments of the step's input_data_header
LoadedNext == input_data(ArgNext(1), ~isinstance(ArgNext(2), "none"))

HeaderToStoreNext ==
    IF isinstance(ArgNext(2), "none") THEN LoadedNext.res[2] ELSE ArgNext(2)

\* C10: input_data_header stores data before it validates the header, in both
\* modes: with the header needed and the header to store not a Header, the call
\* fails with TypeKind, data already replaced (by the loader's array, or by
\* null under no_data_flag) and header as it was; and when the data assignment
\* fails, header is not assigned.
C10_NotAllOrNothing ==
    [][(last'.op = "input_data_header" /\ LoadedNext.err = OK) =>
           /\ (/\ need_header_flag
               /\ ~isinstance(HeaderToStoreNext, "header")
               /\ (no_data_flag \/ isinstance(LoadedNext.res[1], "ndarray"))) =>
                  /\ last'.err = TypeKind
                  /\ data' = IF no_data_flag THEN None ELSE LoadedNext.res[1]
                  /\ header' = header
           /\ (~no_data_flag /\ ~isinstance(LoadedNext.res[1], "ndarray")) =>
                  /\ last'.err = TypeKind
                  /\ header' = header
                  /\ data' = data]_vars

C10_Witness ==
    /\ last.op = "input_data_header"
    /\ last.err = TypeKind
    /\ isinstance(Arg(1), "hdu")
    /\ isinstance(Arg(2), "none")
    /\ isinstance(Arg(1).header, "str")
    /\ data = Arg(1).data
    /\ isinstance(data, "ndarray")
    /\ header = Unset

====
